---- MODULE Spec2Model ----
(***************************************************************************)
(* Monte Carlo pi on WebGPU: the sampling kernel's sharded 64-bit          *)
(* accumulation (src/src/shaders/simulation.wgsl), the host orchestrator   *)
(* (src/src/core/gpu_manager.js) and the benchmark protocol of the         *)
(* application (src/unnamed/part_003, class App, lines 271-724).           *)
(*                                                                         *)
(* Five specifications share the module:                                   *)
(*   SpecKernel  the lanes of the compute kernel and the ResultAggregate;  *)
(*   Spec        the host: frame loop, runFrame, readback, UI events and   *)
(*               the benchmark phases;                                     *)
(*   SpecInit    GPUManager.init and App.init on every platform, followed  *)
(*               by the frame loop that a successful init starts;          *)
(*   SpecRng     the seeding of the generator buffer and the loads,        *)
(*               generator steps and stores of the invocations of one      *)
(*               lane, with the host operations that touch the uniform.    *)
(*   SpecBatch   the handlers that upload a batch_size, at the code's      *)
(*               numbers.                                                  *)
(* The host counts samples in units of one kernel invocation's             *)
(* batch iteration (8 samples): a dispatch with batch_size b adds b units. *)
(***************************************************************************)
EXTENDS Integers, Sequences, FiniteSets, TLC

(***************************************************************************)
(* Bounds and scaled program constants.                                    *)
(***************************************************************************)
\* Width of the u32 words of the model. The code's words are 32 bits wide;
\* the model keeps the wrap-around arithmetic at a width TLC can enumerate.
WordBits == 6
U32 == 2 ^ WordBits

\* Number of dispatches a kernel run goes through.
MaxKernelDispatches == 2
\* params.batch_size is 1 or MaxBatch in the kernel specification.
MaxBatch == 2

\* simulation.wgsl:11  const WORKGROUP_SIZE = 256u   (scaled to 2)
WORKGROUP_SIZE == 2
\* simulation.wgsl:21  const NUM_SLOTS = 1024u       (scaled to 2)
NUM_SLOTS == 2
\* part_003:416-417  const dX = 128; const dY = 128  (scaled to 1 x 2)
KernelDX == 1
KernelDY == 2
\* simulation.wgsl:116  let private_total = count * 8u
SamplesPerIteration == 8

\* Wall clock of the host specification, in ticks of 5 s, up to MaxClock.
MaxClock == 5
\* Dispatches the host submits in one behaviour.
MaxDispatches == 3
\* Frame-loop chains (scheduled or awaiting runFrame) alive at the same time.
MaxChains == 2
\* Rejections of mapAsync in one behaviour.
MaxMapFailures == 1

\* Width of the words of the generator state in SpecRng (32 in the code).
RngBits == 1
RngWord == 2 ^ RngBits
\* simulation.wgsl:39-44  the fields of RNGState are vec4<u32>  (scaled to 2
\* components)
Components == 2
\* gpu_manager.js:160  seedData[i] = 0x9E3779B9  (its low 16 bits, 0x79B9)
ZERO_BREAK == 31161

\* gpu_manager.js:20  this.maxVisualPoints = 1048576  (32 times the 32,768
\* values of gid; scaled to twice the values of gid of the model)
MAX_VISUAL_POINTS == 4

\* part_003:426, 454  warmupDuration < 10 / steadyDuration < 10  (seconds;
\* 2 ticks of 5 s)
WINDOW == 2
\* gpu_manager.js:11, part_003:548  batch_size: 64
INTERACTIVE_BATCH == 64
\* part_003:688  batch_size: 5000
BENCH_BATCH == 5000

VARIABLES
    \* ---- kernel (SpecKernel) ----
    useSubgroups,      \* gpu_manager.js:74-78, which reduction block is compiled
    subgroupSize,      \* lanes per subgroup, chosen by the device
    count,             \* params.batch_size as seen by the kernel
    slots,             \* result.slots: [0..NUM_SLOTS-1 -> Slot]
    lanePc,            \* position of every invocation of the current dispatch
    u_private_inside,  \* per-invocation inside count
    delta_inside,      \* the value an invocation adds to inside_low
    delta_total,       \* the value an invocation adds to total_low
    dispatchNo,        \* dispatches started so far
    initSlots,         \* history: the ResultAggregate before the first dispatch
    sumInside,         \* history: sum of u_private_inside over all invocations
    shardAdded,        \* history: per shard, what the low adds added so far
    adders,            \* history: invocations that did the low-field atomicAdd in this dispatch
    out_x, out_y,      \* the visualization arrays (array<f16>), by element index
    vizCapacity,       \* arrayLength(&out_x) of the bound buffers
    vizWrites,         \* history: per invocation, visualization writes in this dispatch
    \* ---- host (Spec): App ----
    clock,             \* performance.now(), in ticks
    isRunning, isBenchmarking, warmupBaselineSet, isTransitioning,
    benchmarkDisabled, \* controls.benchmark.disabled
    accumulatedTotal, warmupTotal, warmupTime, benchmarkStartTime,
    rafQueue,          \* loop callbacks handed to requestAnimationFrame
    workDoneWaiters,   \* finalize steps awaiting queue.onSubmittedWorkDone(): for each,
                       \* the mapAsync calls made before it that have not settled
    timers,            \* pending setTimeout(processResults): captured steadyTotal
    \* ---- host (Spec): GPUManager and device ----
    frameCounter, isReading, lastResult, batch_size,
    global_time,       \* simulationParams.global_time, as uploaded to the uniform
    resultBuf,         \* ResultAggregate on the device (host-side sum)
    staging,           \* contents of the readback buffer
    mapWaiters,        \* runFrame calls awaiting mapAsync, by caller
    syncWaiters,       \* runFrame calls awaiting onSubmittedWorkDone (sync): for each,
                       \* the mapAsync calls made before it that have not settled
    \* ---- host (Spec): history ----
    dispatches,        \* dispatches submitted in this behaviour
    mapFailures,       \* rejected mapAsync calls in this behaviour
    returned,          \* what the last runFrame whose mapAsync was rejected resolved with
    sinceReset,        \* history: samples dispatched since the accumulators were zeroed
    readbackTotal,     \* samples read from the staging buffer since the accumulators were zeroed
    baselineSteps,     \* WarmUp -> SteadyState steps taken in this benchmark run
    finalSteps,        \* SteadyState -> Finalizing steps taken in this benchmark run
    transitionBlocked, \* a loop iteration returned at "if (this.isTransitioning) return"
    reportsShown,      \* calls of showScientificReport in this behaviour
    aborted,           \* processResults took the "Samples zero" branch
    pausedByUser,      \* the last play/pause or benchmark click was a pause
    renderPass,        \* history: the last runFrame encoded the render pass
    \* ---- initialisation (SpecInit): the platform ----
    hasWebGPU,         \* navigator.gpu is defined
    adapterAvailable,  \* per strategy: requestAdapter returns an adapter
    adapterFeatures,   \* per strategy: adapter.features of that adapter
    deviceAvailable,   \* adapter.requestDevice resolves
    \* ---- initialisation (SpecInit): GPUManager.init and App.init ----
    initPc,            \* position of init
    adapter,           \* the local `adapter` of GPUManager.init
    requests,          \* history: requestAdapter calls made, in order
    deviceRequested,   \* adapter.requestDevice was called
    resourcesCreated,  \* createResources / initSimulationPipeline ran
    initError,         \* the error init threw, "none" if none
    listenersInstalled,\* setupListeners ran
    restartNotice,     \* the "restart your browser" modal is shown
    \* ---- generator state (SpecRng) ----
    rngLane,           \* the lane (gid) whose state region is followed
    entropy,           \* the outputs crypto.getRandomValues can give for that lane
    rng_storage,       \* rng_storage[gid*4 .. gid*4+3] of that lane
    rngSeeded,         \* createResources has written the seed data
    rngHostWrites,     \* history: queue.writeBuffer calls on buffers.rngState
    seed,              \* simulationParams.seed, as uploaded to the uniform
    rngState,          \* per invocation: its private `state` (RNGState)
    rngPc,             \* per invocation: 0..3 next load, 4..7 next store, 8 done
    rngDispatchNo      \* dispatches started in SpecRng

kvars == <<useSubgroups, subgroupSize, count, slots, lanePc, u_private_inside,
           delta_inside, delta_total, dispatchNo, initSlots, sumInside, shardAdded, adders,
           out_x, out_y, vizCapacity, vizWrites>>

appvars == <<clock, isRunning, isBenchmarking, warmupBaselineSet, isTransitioning,
             benchmarkDisabled, accumulatedTotal, warmupTotal, warmupTime,
             benchmarkStartTime, rafQueue, workDoneWaiters, timers>>

gpuvars == <<frameCounter, isReading, lastResult, batch_size, resultBuf, staging,
             mapWaiters, syncWaiters, global_time>>

histvars == <<dispatches, mapFailures, returned, readbackTotal, baselineSteps, finalSteps,
              transitionBlocked, reportsShown, aborted, pausedByUser, renderPass, sinceReset>>

hvars == <<appvars, gpuvars, histvars>>

ivars == <<hasWebGPU, adapterAvailable, adapterFeatures, deviceAvailable, initPc,
           adapter, requests, deviceRequested, resourcesCreated, initError,
           listenersInstalled, restartNotice>>

rvars == <<rngLane, entropy, rng_storage, rngSeeded, rngHostWrites, seed, rngState, rngPc,
           rngDispatchNo>>

vars == <<kvars, hvars, ivars, rvars>>

(***************************************************************************)
(* Kernel: dispatch geometry                                               *)
(***************************************************************************)
\* All invocations of dispatchWorkgroups(dX, dY) with @workgroup_size(256):
\* <<workgroup_id.x, workgroup_id.y, local_invocation_id.x>>.
Invocations == (0 .. KernelDX - 1) \X (0 .. KernelDY - 1) \X (0 .. WORKGROUP_SIZE - 1)

InvocationCount(dX, dY) == dX * dY * WORKGROUP_SIZE

\* gpu_manager.js:23  this.totalThreads = 128 * 256  (dX * workgroup size)
TotalThreads == KernelDX * WORKGROUP_SIZE

\* let gid = global_id.x
Gid(inv) == inv[1] * WORKGROUP_SIZE + inv[3]

\* let slot_idx = gid % NUM_SLOTS
SlotIdx_PerGroup(inv) == (Gid(inv) \div WORKGROUP_SIZE) % NUM_SLOTS
SlotIdx_Single(inv) == 0
SlotIdx(inv) == Gid(inv) % NUM_SLOTS

Workgroup(inv) == <<inv[1], inv[2]>>

\* The subgroup an invocation belongs to: consecutive lanes of one workgroup.
Subgroup(inv) == <<inv[1], inv[2], inv[3] \div subgroupSize>>

SubgroupMembers(sg) == {i \in Invocations : Subgroup(i) = sg}

Subgroups == {Subgroup(i) : i \in Invocations}

Shards == 0 .. NUM_SLOTS - 1

(***************************************************************************)
(* Kernel: 32-bit arithmetic                                               *)
(***************************************************************************)
\* u32 addition
AddU32(a, b) == (a + b) % U32

\* let private_total = count * 8u
PrivateTotal(c) == (c * SamplesPerIteration) % U32

\* if (old + delta < old)   -- unsigned comparison after the wrapping add
Wrapped_NoCarry(old, delta) == FALSE
Wrapped_Strict(old, delta) == old + delta > U32
Wrapped(old, delta) == AddU32(old, delta) < old

RECURSIVE SumOver(_, _)
SumOver(S, f) ==
    IF S = {} THEN 0
    ELSE LET x == CHOOSE y \in S : TRUE IN f[x] + SumOver(S \ {x}, f)

RECURSIVE SumU32(_, _)
\* subgroupAdd: the u32 sum over the lanes of the subgroup
SumU32(S, f) ==
    IF S = {} THEN 0
    ELSE LET x == CHOOSE y \in S : TRUE IN AddU32(f[x], SumU32(S \ {x}, f))

\* Host-side view of one counter pair: low + (high << 32)
Combine(low, high) == low + high * U32

\* gpu_manager.js:370-378, the sum over all slots
HostTotal(sl) == SumOver(Shards, [s \in Shards |-> Combine(sl[s].total_low, sl[s].total_high)])
HostInside(sl) == SumOver(Shards, [s \in Shards |-> Combine(sl[s].inside_low, sl[s].inside_high)])

ZeroSlot == [inside_low |-> 0, inside_high |-> 0, total_low |-> 0, total_high |-> 0]

\* A ResultAggregate the device can hold after earlier dispatches: both low
\* fields close to the wrap-around boundary (total_low is a multiple of 8).
NearFullSlot == [inside_low |-> U32 - 1, inside_high |-> 0,
                 total_low |-> U32 - SamplesPerIteration, total_high |-> 0]

(***************************************************************************)
(* Generator: xoshiro128++ on vectors, and the host's seeding              *)
(***************************************************************************)
\* A vec4<u32> (Components words) and an RNGState (s0..s3, indexed 0..3).
Vec == [1 .. Components -> 0 .. RngWord - 1]
ZeroVec == [c \in 1 .. Components |-> 0]
RngStates == [0 .. 3 -> Vec]
ZeroState == [k \in 0 .. 3 |-> ZeroVec]

\* The ^ of two words, bit by bit.
RECURSIVE XorBits(_, _, _)
XorBits(a, b, n) ==
    IF n = 0 THEN 0
    ELSE ((a + b) % 2) + 2 * XorBits(a \div 2, b \div 2, n - 1)

\* simulation.wgsl:60-65  the ^= of two vec4<u32>, component by component
VXor(x, y) == [c \in 1 .. Components |-> XorBits(x[c], y[c], RngBits)]

\* simulation.wgsl:59  x << vec4<u32>(k): the bits shifted out of the word
\* are lost
VShl(x, k) ==
    [c \in 1 .. Components |-> IF k >= RngBits THEN 0 ELSE (x[c] * 2 ^ k) % RngWord]

\* simulation.wgsl:48-52  rotl: (x << k) | (x >> (width - k)), a rotation of
\* each word by k places
rotl(x, k) ==
    LET r == k % RngBits
    IN  [c \in 1 .. Components |->
            IF r = 0 THEN x[c]
            ELSE ((x[c] * 2 ^ r) % RngWord) + (x[c] \div 2 ^ (RngBits - r))]

\* simulation.wgsl:56-68  the state that xoshiro128pp_next leaves in *s
xoshiro128pp_next(s) ==
    LET t   == VShl(s[1], 9)
        s2a == VXor(s[2], s[0])
        s3a == VXor(s[3], s[1])
        s1a == VXor(s[1], s2a)
        s0a == VXor(s[0], s3a)
        s2b == VXor(s2a, t)
        s3b == rotl(s3a, 11)
    IN  [k \in 0 .. 3 |-> CASE k = 0 -> s0a [] k = 1 -> s1a [] k = 2 -> s2b [] k = 3 -> s3b]

\* simulation.wgsl:98-111  the loop calls xoshiro128pp_next four times per
\* iteration, count times
RECURSIVE Advance(_, _)
Advance(s, n) ==
    IF n = 0 THEN s
    ELSE LET t == xoshiro128pp_next(s)
         IN  \* a state the step leaves as it is stays as it is
             IF t = s THEN s ELSE Advance(t, n - 1)
AfterBatch(s, cnt) == Advance(s, 4 * cnt)

\* gpu_manager.js:157-162  a group of four consecutive words (one vec4) that
\* is all zero gets 0x9E3779B9 in its first word
Patched(e) ==
    [k \in 0 .. 3 |->
        IF \A c \in 1 .. Components : e[k][c] = 0
        THEN [e[k] EXCEPT ![1] = ZERO_BREAK % RngWord]
        ELSE e[k]]

\* gpu_manager.js:8-13, 140-147: the generator buffer is created (zeroed)
\* and nothing is written to it yet; simulationParams.seed is 0
RngBegin ==
    /\ rng_storage = ZeroState
    /\ rngSeeded = FALSE
    /\ rngHostWrites = 0
    /\ seed = 0
    /\ rngState = [i \in Invocations |-> ZeroState]
    /\ rngPc = [i \in Invocations |-> 8]
    /\ rngDispatchNo = 0

\* The generator variables in the specifications that do not follow the
\* generator: lane 0, seeded from an entropy output of zeros.
RngQuiet ==
    /\ rngLane = 0
    /\ entropy = {ZeroState}
    /\ rng_storage = Patched(ZeroState)
    /\ rngSeeded = TRUE
    /\ rngHostWrites = 1
    /\ seed = 0
    /\ rngState = [i \in Invocations |-> ZeroState]
    /\ rngPc = [i \in Invocations |-> 8]
    /\ rngDispatchNo = 0

\* Entropy outputs the initialisation specification runs with: all bits
\* clear and all bits set.
EntropySamples == {ZeroState, [k \in 0 .. 3 |-> [c \in 1 .. Components |-> RngWord - 1]]}

(***************************************************************************)
(* Kernel: actions                                                         *)
(***************************************************************************)
\* The lengths the runtime-sized arrays out_x and out_y can have: the host's
\* buffers (gpu_manager.js:100-116, above every gid) and, for the branch of
\* simulation.wgsl:125 that the host's buffers never take, one element.
VizCapacities == {1, MAX_VISUAL_POINTS}

\* simulation.wgsl:107-110, 126-127: (f16(last_x), f16(last_y)), the first
\* pair of the invocation's last iteration. The model keeps of the pair which
\* dispatch drew it (0 is the zero the buffers are created with), not its
\* coordinates: they take no part in the counting.
LastSample == [x |-> dispatchNo, y |-> dispatchNo]

\* simulation.wgsl:125-128  if (gid < arrayLength(&out_x)) { out_x[gid] = ...;
\* out_y[gid] = ...; }
VizWrite_Unguarded(i, last) ==
    /\ out_x' = [e \in DOMAIN out_x \cup {Gid(i)} |-> IF e = Gid(i) THEN last.x
                    ELSE IF e \in DOMAIN out_x THEN out_x[e] ELSE 0]
    /\ out_y' = [e \in DOMAIN out_y \cup {Gid(i)} |-> IF e = Gid(i) THEN last.y
                    ELSE IF e \in DOMAIN out_y THEN out_y[e] ELSE 0]
    /\ vizWrites' = [vizWrites EXCEPT ![i] = @ + 1]
VizWrite(i, last) ==
    IF Gid(i) < vizCapacity
    THEN /\ out_x' = [out_x EXCEPT ![Gid(i)] = last.x]
         /\ out_y' = [out_y EXCEPT ![Gid(i)] = last.y]
         /\ vizWrites' = [vizWrites EXCEPT ![i] = @ + 1]
    ELSE UNCHANGED <<out_x, out_y, vizWrites>>

KernelInit ==
    /\ useSubgroups \in BOOLEAN
    /\ subgroupSize \in (IF useSubgroups THEN 1 .. WORKGROUP_SIZE ELSE {WORKGROUP_SIZE})
    /\ count \in {1, MaxBatch}
    /\ slots \in {[s \in Shards |-> ZeroSlot], [s \in Shards |-> NearFullSlot]}
    /\ initSlots = slots
    /\ lanePc = [i \in Invocations |-> "start"]
    /\ u_private_inside = [i \in Invocations |-> 0]
    /\ delta_inside = [i \in Invocations |-> 0]
    /\ delta_total = [i \in Invocations |-> 0]
    /\ dispatchNo = 1
    /\ sumInside = 0
    /\ shardAdded = [s \in Shards |-> [inside |-> 0, total |-> 0]]
    /\ adders = {}
    /\ vizCapacity \in VizCapacities
    /\ out_x = [e \in 0 .. vizCapacity - 1 |-> 0]
    /\ out_y = [e \in 0 .. vizCapacity - 1 |-> 0]
    /\ vizWrites = [i \in Invocations |-> 0]

\* simulation.wgsl:82-128: the sampling loop of one invocation. The inside
\* count depends on the generator's output; it is any value the loop can
\* produce between "no sample inside" and "every sample inside".
Sample(i) ==
    /\ lanePc[i] = "start"
    /\ \E ins \in {0, PrivateTotal(count)} :
        /\ sumInside' = sumInside + ins
        /\ VizWrite(i, LastSample)
        /\ IF useSubgroups
           THEN /\ lanePc' = [lanePc EXCEPT ![i] = "subgroupAdd"]
                /\ u_private_inside' = [u_private_inside EXCEPT ![i] = ins]
                /\ UNCHANGED <<delta_inside, delta_total>>
           ELSE /\ lanePc' = [lanePc EXCEPT ![i] = "addInside"]
                /\ UNCHANGED u_private_inside
                /\ delta_inside' = [delta_inside EXCEPT ![i] = ins]
                /\ delta_total' = [delta_total EXCEPT ![i] = PrivateTotal(count)]
    /\ UNCHANGED <<useSubgroups, subgroupSize, count, slots, dispatchNo, initSlots, shardAdded>>
    /\ UNCHANGED adders
    /\ UNCHANGED vizCapacity
    /\ UNCHANGED <<hvars, ivars, rvars>>

\* subgroupElect(): exactly one lane of the subgroup goes on
ElectedPc_All(i, e) == "addInside"
ElectedPc(i, e) == IF i = e THEN "addInside" ELSE "done"

\* gpu_manager.js:179-182: subgroupAdd of both partial counts over the lanes
\* of one subgroup, then subgroupElect picks the lane that updates the shard.
SubgroupReduce(sg) ==
    LET members == SubgroupMembers(sg) IN
    /\ useSubgroups
    /\ \A i \in members : lanePc[i] = "subgroupAdd"
    /\ \E e \in members :
        /\ lanePc' = [i \in Invocations |->
                        IF i \in members THEN ElectedPc(i, e) ELSE lanePc[i]]
        /\ delta_inside' = [i \in Invocations |->
                        IF i \in members /\ ElectedPc(i, e) # "done"
                        THEN SumU32(members, u_private_inside)
                        ELSE delta_inside[i]]
        /\ delta_total' = [i \in Invocations |->
                        IF i \in members /\ ElectedPc(i, e) # "done"
                        THEN SumU32(members, [m \in members |-> PrivateTotal(count)])
                        ELSE delta_total[i]]
        /\ u_private_inside' = [i \in Invocations |->
                        IF i \in members THEN 0 ELSE u_private_inside[i]]
    /\ UNCHANGED <<useSubgroups, subgroupSize, count, slots,
                   dispatchNo, initSlots, sumInside, shardAdded>>
    /\ UNCHANGED adders
    /\ UNCHANGED <<out_x, out_y, vizCapacity, vizWrites>>
    /\ UNCHANGED <<hvars, ivars, rvars>>

\* simulation.wgsl:132-133 / gpu_manager.js:183-184
AddInsideLow(i) ==
    LET s == SlotIdx(i)
        old == slots[s].inside_low
    IN
    /\ lanePc[i] = "addInside"
    /\ slots' = [slots EXCEPT ![s].inside_low = AddU32(old, delta_inside[i])]
    /\ shardAdded' = [shardAdded EXCEPT ![s].inside = @ + delta_inside[i]]
    /\ lanePc' = [lanePc EXCEPT ![i] =
                    IF Wrapped(old, delta_inside[i]) THEN "carryInside" ELSE "addTotal"]
    /\ delta_inside' = [delta_inside EXCEPT ![i] = 0]
    /\ UNCHANGED <<useSubgroups, subgroupSize, count, u_private_inside,
                   delta_total, dispatchNo, initSlots, sumInside>>
    /\ adders' = adders \cup {i}
    /\ UNCHANGED <<out_x, out_y, vizCapacity, vizWrites>>
    /\ UNCHANGED <<hvars, ivars, rvars>>

\* simulation.wgsl:134 / gpu_manager.js:185
CarryInside(i) ==
    LET s == SlotIdx(i) IN
    /\ lanePc[i] = "carryInside"
    /\ slots' = [slots EXCEPT ![s].inside_high = AddU32(@, 1)]
    /\ lanePc' = [lanePc EXCEPT ![i] = "addTotal"]
    /\ UNCHANGED <<useSubgroups, subgroupSize, count, u_private_inside, delta_inside,
                   delta_total, dispatchNo, initSlots, sumInside, shardAdded, adders>>
    /\ UNCHANGED adders
    /\ UNCHANGED <<out_x, out_y, vizCapacity, vizWrites>>
    /\ UNCHANGED <<hvars, ivars, rvars>>

\* simulation.wgsl:136-137 / gpu_manager.js:187-188
AddTotalLow(i) ==
    LET s == SlotIdx(i)
        old == slots[s].total_low
    IN
    /\ lanePc[i] = "addTotal"
    /\ slots' = [slots EXCEPT ![s].total_low = AddU32(old, delta_total[i])]
    /\ shardAdded' = [shardAdded EXCEPT ![s].total = @ + delta_total[i]]
    /\ lanePc' = [lanePc EXCEPT ![i] =
                    IF Wrapped(old, delta_total[i]) THEN "carryTotal" ELSE "done"]
    /\ delta_total' = [delta_total EXCEPT ![i] = 0]
    /\ UNCHANGED <<useSubgroups, subgroupSize, count, u_private_inside, delta_inside,
                   dispatchNo, initSlots, sumInside>>
    /\ UNCHANGED adders
    /\ UNCHANGED <<out_x, out_y, vizCapacity, vizWrites>>
    /\ UNCHANGED <<hvars, ivars, rvars>>

\* simulation.wgsl:138 / gpu_manager.js:189
CarryTotal(i) ==
    LET s == SlotIdx(i) IN
    /\ lanePc[i] = "carryTotal"
    /\ slots' = [slots EXCEPT ![s].total_high = AddU32(@, 1)]
    /\ lanePc' = [lanePc EXCEPT ![i] = "done"]
    /\ UNCHANGED <<useSubgroups, subgroupSize, count, u_private_inside, delta_inside,
                   delta_total, dispatchNo, initSlots, sumInside, shardAdded, adders>>
    /\ UNCHANGED adders
    /\ UNCHANGED <<out_x, out_y, vizCapacity, vizWrites>>
    /\ UNCHANGED <<hvars, ivars, rvars>>

AllRetired == \A i \in Invocations : lanePc[i] = "done"

\* gpu_manager.js:319-327 with readback off: the next dispatch of the same
\* pipeline starts once the previous one has retired; nothing is cleared.
NextDispatch ==
    /\ AllRetired
    /\ dispatchNo < MaxKernelDispatches
    /\ dispatchNo' = dispatchNo + 1
    /\ lanePc' = [i \in Invocations |-> "start"]
    /\ UNCHANGED <<useSubgroups, subgroupSize, count, slots, u_private_inside,
                   delta_inside, delta_total, initSlots, sumInside, shardAdded>>
    /\ adders' = {}
    /\ vizWrites' = [i \in Invocations |-> 0]
    /\ UNCHANGED <<out_x, out_y, vizCapacity>>
    /\ UNCHANGED <<hvars, ivars, rvars>>

KernelNext ==
    \/ \E i \in Invocations : Sample(i)
    \/ \E i \in Invocations : SubgroupReduce(Subgroup(i))
    \/ \E i \in Invocations : AddInsideLow(i)
    \/ \E i \in Invocations : CarryInside(i)
    \/ \E i \in Invocations : AddTotalLow(i)
    \/ \E i \in Invocations : CarryTotal(i)
    \/ NextDispatch


(***************************************************************************)
(* Host: GPUManager.runFrame                                               *)
(***************************************************************************)
\* gpu_manager.js:348  if (options.readback && !this.isReading)
\* gpu_manager.js:352-359: the commands encoded after the compute pass of a
\* frame with readback, applied to the aggregate `agg` the pass leaves:
\* copyBufferToBuffer(result -> readback), then clearBuffer(result)
ReadbackCommands_ClearFirst(agg) == [readback |-> 0, result |-> 0]
ReadbackCommands(agg) == [readback |-> agg, result |-> 0]

CanReadback_NoGuard(readback) == readback
CanReadback(readback) == readback /\ ~isReading

\* gpu_manager.js:304-309, 316: global_time = this.frameCounter goes through
\* a Uint32Array into the uniform, which keeps its low 32 bits
UploadedTime_Frozen(fc) == 0
UploadedTime(fc) == fc % U32

\* gpu_manager.js:314-362, 391: the synchronous part of runFrame up to its
\* first await. The dispatch adds batch_size units to the ResultAggregate;
\* with readback the same submission copies the aggregate to the staging
\* buffer and clears it, and the in-flight flag is set.
RunFrameSubmit(render, readback) ==
    /\ frameCounter' = frameCounter + 1
    /\ global_time' = UploadedTime(frameCounter + 1)
    /\ renderPass' = render
    /\ dispatches' = dispatches + 1
    /\ sinceReset' = sinceReset + batch_size
    /\ UNCHANGED <<lastResult, batch_size>>
    /\ IF CanReadback(readback)
       THEN /\ staging' = ReadbackCommands(resultBuf + batch_size).readback
            /\ resultBuf' = ReadbackCommands(resultBuf + batch_size).result
            /\ isReading' = TRUE
       ELSE /\ resultBuf' = resultBuf + batch_size
            /\ UNCHANGED <<staging, isReading>>

(***************************************************************************)
(* Host: what runs when a runFrame promise settles with `result`           *)
(***************************************************************************)
\* part_003:506-516, 557: completeScientificBenchmark(10.0) up to setTimeout
\* part_003:474-477: the .then of the finalize readback
FinalThen(result) ==
    /\ accumulatedTotal' = accumulatedTotal + result
    /\ isBenchmarking' = FALSE
    /\ benchmarkDisabled' = TRUE
    /\ timers' = Append(timers, (accumulatedTotal + result) - warmupTotal)
    /\ isTransitioning' = FALSE
    /\ UNCHANGED <<warmupTotal, warmupTime, warmupBaselineSet, rafQueue>>

\* part_003:436-446: the .then of the WarmUp -> SteadyState readback
WarmupThen(result) ==
    /\ accumulatedTotal' = accumulatedTotal + result
    /\ warmupTotal' = accumulatedTotal + result
    /\ warmupTime' = clock
    /\ warmupBaselineSet' = TRUE
    /\ isTransitioning' = FALSE
    /\ UNCHANGED <<isBenchmarking, benchmarkDisabled, timers, rafQueue>>

\* part_003:488-503: the loop iteration after `await this.gpu.runFrame(...)`;
\* q is the number of callbacks queued besides this iteration.
LoopResume(readback, result, q) ==
    /\ accumulatedTotal' = (IF readback THEN accumulatedTotal + result ELSE accumulatedTotal)
    /\ rafQueue' = (IF isRunning THEN q + 1 ELSE q)
    /\ UNCHANGED <<warmupTotal, warmupTime, warmupBaselineSet, isTransitioning,
                   isBenchmarking, benchmarkDisabled, timers>>

Continue(caller, result) ==
    CASE caller = "loop" -> LoopResume(TRUE, result, rafQueue)
      [] caller = "warmup" -> WarmupThen(result)
      [] caller = "final" -> FinalThen(result)

\* Loop iterations that exist: scheduled or suspended in runFrame.
LoopWaiters == Len(SelectSeq(mapWaiters, LAMBDA c : c = "loop"))
ActiveChains == rafQueue + LoopWaiters

\* queue.onSubmittedWorkDone() (part_003:470, gpu_manager.js:395): the promise
\* resolves once the work submitted before the call is done, which implies
\* that the mapAsync calls made before it have settled. A waiter is the
\* number of such mapAsync calls still pending; a settled one is taken off.
WorkDoneAfterMap(w) == [k \in 1 .. Len(w) |-> IF w[k] > 0 THEN w[k] - 1 ELSE 0]
WorkDoneReady(w) == w # <<>> /\ Head(w) = 0

\* gpu_manager.js:380-382, 386-388: the try block returns and the finally
\* block clears the flag
FlagAfterSuccess_Stuck == isReading
FlagAfterSuccess == FALSE

\* gpu_manager.js:367-382, 386-388: mapAsync resolved. The slots are summed,
\* lastResult is replaced, the flag is cleared, and the caller goes on.
MapResolved ==
    /\ mapWaiters # <<>>
    /\ mapWaiters' = Tail(mapWaiters)
    /\ lastResult' = staging
    /\ isReading' = FlagAfterSuccess
    /\ readbackTotal' = readbackTotal + staging
    /\ Continue(Head(mapWaiters), staging)
    /\ workDoneWaiters' = WorkDoneAfterMap(workDoneWaiters)
    /\ syncWaiters' = WorkDoneAfterMap(syncWaiters)
    /\ UNCHANGED <<clock, isRunning, benchmarkStartTime,
                   frameCounter, batch_size, resultBuf, staging,
                   dispatches, mapFailures, returned, baselineSteps, finalSteps, transitionBlocked,
                   reportsShown, aborted, pausedByUser>>
    /\ UNCHANGED sinceReset
    /\ UNCHANGED <<kvars, ivars, rvars, renderPass, global_time>>

\* gpu_manager.js:386-388  finally { this.isReading = false; }
FlagAfterFailure_Stuck == isReading
FlagAfterFailure == FALSE

\* gpu_manager.js:383-388: mapAsync rejected. The catch block returns
\* this.lastResult; the finally block clears the flag.
MapRejected ==
    /\ mapWaiters # <<>>
    /\ mapFailures < MaxMapFailures
    /\ mapFailures' = mapFailures + 1
    /\ mapWaiters' = Tail(mapWaiters)
    /\ returned' = lastResult
    /\ isReading' = FlagAfterFailure
    /\ Continue(Head(mapWaiters), lastResult)
    /\ workDoneWaiters' = WorkDoneAfterMap(workDoneWaiters)
    /\ syncWaiters' = WorkDoneAfterMap(syncWaiters)
    /\ UNCHANGED <<clock, isRunning, benchmarkStartTime,
                   frameCounter, lastResult, batch_size, resultBuf, staging,
                   dispatches, readbackTotal, baselineSteps, finalSteps, transitionBlocked,
                   reportsShown, aborted, pausedByUser>>
    /\ UNCHANGED sinceReset
    /\ UNCHANGED <<kvars, ivars, rvars, renderPass, global_time>>

\* gpu_manager.js:394-398: the awaited onSubmittedWorkDone of a runFrame with
\* sync resolved; runFrame returns this.lastResult as it is now. Only the
\* finalize call passes sync.
SyncDone ==
    /\ WorkDoneReady(syncWaiters)
    /\ syncWaiters' = Tail(syncWaiters)
    /\ FinalThen(lastResult)
    /\ UNCHANGED <<clock, isRunning, benchmarkStartTime, workDoneWaiters,
                   frameCounter, isReading, lastResult, batch_size, resultBuf,
                   staging, mapWaiters, dispatches, mapFailures, returned, readbackTotal,
                   baselineSteps, finalSteps, transitionBlocked,
                   reportsShown, aborted, pausedByUser>>
    /\ UNCHANGED sinceReset
    /\ UNCHANGED <<kvars, ivars, rvars, renderPass, global_time>>

(***************************************************************************)
(* Host: App.loop                                                          *)
(***************************************************************************)
\* part_003:420-426 and 449-454: which branch an iteration takes
InWarmupWindow ==
    isBenchmarking /\ ~warmupBaselineSet /\ clock - benchmarkStartTime < WINDOW
AtWarmupEnd ==
    isBenchmarking /\ ~warmupBaselineSet /\ ~(clock - benchmarkStartTime < WINDOW)
InSteadyWindow ==
    isBenchmarking /\ warmupBaselineSet /\ clock - warmupTime < WINDOW
AtSteadyEnd ==
    isBenchmarking /\ warmupBaselineSet /\ ~(clock - warmupTime < WINDOW)

\* part_003:432, 463  if (this.isTransitioning) return;
TransitionGuard_Off == FALSE
TransitionGuard == isTransitioning

\* part_003:414  if (!this.isRunning) return;
LoopStopped ==
    /\ rafQueue > 0
    /\ ~isRunning
    /\ rafQueue' = rafQueue - 1
    /\ UNCHANGED <<clock, isRunning, isBenchmarking, warmupBaselineSet, isTransitioning,
                   benchmarkDisabled, accumulatedTotal, warmupTotal, warmupTime,
                   benchmarkStartTime, workDoneWaiters, timers, gpuvars, histvars>>
    /\ UNCHANGED <<kvars, ivars, rvars, renderPass, global_time>>

\* part_003:432 / 463: the transition is already under way
LoopBlocked ==
    /\ rafQueue > 0
    /\ isRunning
    /\ AtWarmupEnd \/ AtSteadyEnd
    /\ TransitionGuard
    /\ rafQueue' = rafQueue - 1
    /\ transitionBlocked' = TRUE
    /\ UNCHANGED <<clock, isRunning, isBenchmarking, warmupBaselineSet, isTransitioning,
                   benchmarkDisabled, accumulatedTotal, warmupTotal, warmupTime,
                   benchmarkStartTime, workDoneWaiters, timers, gpuvars,
                   dispatches, mapFailures, returned, readbackTotal, baselineSteps, finalSteps,
                   reportsShown, aborted, pausedByUser>>
    /\ UNCHANGED sinceReset
    /\ UNCHANGED <<kvars, ivars, rvars, renderPass, global_time>>

\* part_003:430-447: WarmUp -> SteadyState. runFrame is called with readback;
\* when a readback is already pending it resolves at once with lastResult and
\* the .then callback runs before any other task.
LoopWarmupTransition ==
    /\ rafQueue > 0
    /\ isRunning
    /\ AtWarmupEnd
    /\ ~TransitionGuard
    /\ dispatches < MaxDispatches
    /\ baselineSteps' = baselineSteps + 1
    /\ RunFrameSubmit(FALSE, TRUE)
    /\ IF CanReadback(TRUE)
       THEN /\ mapWaiters' = Append(mapWaiters, "warmup")
            /\ isTransitioning' = TRUE
            /\ rafQueue' = rafQueue - 1
            /\ UNCHANGED <<accumulatedTotal, warmupTotal, warmupTime, warmupBaselineSet,
                           isBenchmarking, benchmarkDisabled, timers>>
       ELSE /\ accumulatedTotal' = accumulatedTotal + lastResult
            /\ warmupTotal' = accumulatedTotal + lastResult
            /\ warmupTime' = clock
            /\ warmupBaselineSet' = TRUE
            /\ isTransitioning' = FALSE
            /\ rafQueue' = rafQueue - 1
            /\ UNCHANGED <<mapWaiters, isBenchmarking, benchmarkDisabled, timers>>
    /\ UNCHANGED <<clock, isRunning, benchmarkStartTime, workDoneWaiters, syncWaiters,
                   mapFailures, returned, readbackTotal, finalSteps, transitionBlocked,
                   reportsShown, aborted, pausedByUser>>
    /\ UNCHANGED <<kvars, ivars, rvars>>

\* part_003:461-480: SteadyState -> Finalizing. The running flag is cleared
\* and the iteration waits for the queue to drain.
LoopFinalize ==
    /\ rafQueue > 0
    /\ isRunning
    /\ AtSteadyEnd
    /\ ~TransitionGuard
    /\ isTransitioning' = TRUE
    /\ isRunning' = FALSE
    /\ workDoneWaiters' = Append(workDoneWaiters, Len(mapWaiters))
    /\ finalSteps' = finalSteps + 1
    /\ rafQueue' = rafQueue - 1
    /\ UNCHANGED <<clock, isBenchmarking, warmupBaselineSet, benchmarkDisabled,
                   accumulatedTotal, warmupTotal, warmupTime, benchmarkStartTime,
                   timers, gpuvars, dispatches, mapFailures, returned, readbackTotal,
                   baselineSteps, transitionBlocked,
                   reportsShown, aborted, pausedByUser>>
    /\ UNCHANGED sinceReset
    /\ UNCHANGED <<kvars, ivars, rvars, renderPass, global_time>>

\* part_003:418, 429, 460: frameOptions.readback of an ordinary iteration
FrameOptions_Default == [render |-> TRUE, readback |-> TRUE]
FrameOptions ==
    IF InWarmupWindow THEN [render |-> FALSE, readback |-> TRUE]
    ELSE IF InSteadyWindow THEN [render |-> FALSE, readback |-> FALSE]
    ELSE [render |-> TRUE, readback |-> TRUE]
FrameReadback == FrameOptions.readback

\* part_003:413-503: an ordinary iteration (interactive, WarmUp or SteadyState
\* frame). With a readback the iteration is suspended until mapAsync settles;
\* otherwise runFrame resolves at once and the iteration completes.
LoopFrame ==
    /\ rafQueue > 0
    /\ isRunning
    /\ ~AtWarmupEnd /\ ~AtSteadyEnd
    /\ dispatches < MaxDispatches
    /\ RunFrameSubmit(FrameOptions.render, FrameReadback)
    /\ IF CanReadback(FrameReadback)
       THEN /\ mapWaiters' = Append(mapWaiters, "loop")
            /\ rafQueue' = rafQueue - 1
            /\ UNCHANGED <<accumulatedTotal, warmupTotal, warmupTime, warmupBaselineSet,
                           isTransitioning, isBenchmarking, benchmarkDisabled, timers>>
       ELSE /\ LoopResume(FrameReadback, lastResult, rafQueue - 1)
            /\ UNCHANGED mapWaiters
    /\ UNCHANGED <<clock, isRunning, benchmarkStartTime, workDoneWaiters, syncWaiters,
                   mapFailures, returned, readbackTotal, baselineSteps, finalSteps,
                   transitionBlocked,
                   reportsShown, aborted, pausedByUser>>
    /\ UNCHANGED <<kvars, ivars, rvars>>

\* part_003:470-473: onSubmittedWorkDone resolved; the finalize frame is run
\* with { render: false, readback: true, sync: true }.
FinalizeRunFrame ==
    /\ WorkDoneReady(workDoneWaiters)
    /\ dispatches < MaxDispatches
    /\ workDoneWaiters' = Tail(workDoneWaiters)
    /\ RunFrameSubmit(FALSE, TRUE)
    /\ IF CanReadback(TRUE)
       THEN /\ mapWaiters' = Append(mapWaiters, "final")
            /\ UNCHANGED syncWaiters
       ELSE /\ syncWaiters' = Append(syncWaiters, Len(mapWaiters))
            /\ UNCHANGED mapWaiters
    /\ UNCHANGED <<clock, isRunning, isBenchmarking, warmupBaselineSet, isTransitioning,
                   benchmarkDisabled, accumulatedTotal, warmupTotal, warmupTime,
                   benchmarkStartTime, rafQueue, timers, mapFailures, returned,
                   readbackTotal, baselineSteps, finalSteps, transitionBlocked,
                   reportsShown, aborted, pausedByUser>>
    /\ UNCHANGED <<kvars, ivars, rvars>>

(***************************************************************************)
(* Host: processResults, reset and the UI handlers                         *)
(***************************************************************************)
\* part_003:519  if (steadyTotal <= 0n)
SamplesZero_Strict(steadyTotal) == steadyTotal < 0
SamplesZero(steadyTotal) == steadyTotal <= 0

\* part_003:519-523: steadyTotal <= 0n, reset() and return
ProcessResultsAbort ==
    /\ timers # <<>>
    /\ SamplesZero(Head(timers))
    /\ aborted' = TRUE
    /\ timers' = Tail(timers)
    /\ isBenchmarking' = FALSE
    /\ benchmarkDisabled' = FALSE
    /\ resultBuf' = 0
    /\ frameCounter' = 0
    /\ lastResult' = 0
    /\ accumulatedTotal' = 0
    /\ readbackTotal' = 0
    /\ sinceReset' = 0
    /\ UNCHANGED <<clock, isRunning, warmupBaselineSet, isTransitioning, warmupTotal,
                   warmupTime, benchmarkStartTime, rafQueue, workDoneWaiters,
                   isReading, batch_size, staging, mapWaiters, syncWaiters,
                   dispatches, mapFailures, returned, baselineSteps, finalSteps, 
                   transitionBlocked, reportsShown, pausedByUser>>
    /\ UNCHANGED <<kvars, ivars, rvars, renderPass, global_time>>

\* part_003:525-553: the report is shown and the shared state is reset
ProcessResultsReport ==
    /\ timers # <<>>
    /\ ~SamplesZero(Head(timers))
    /\ reportsShown' = reportsShown + 1
    /\ timers' = Tail(timers)
    /\ warmupBaselineSet' = FALSE
    /\ accumulatedTotal' = 0
    /\ readbackTotal' = 0
    /\ sinceReset' = 0
    /\ batch_size' = INTERACTIVE_BATCH
    /\ benchmarkDisabled' = FALSE
    /\ UNCHANGED <<clock, isRunning, isBenchmarking, isTransitioning, warmupTotal,
                   warmupTime, benchmarkStartTime, rafQueue, workDoneWaiters,
                   frameCounter, isReading, lastResult, resultBuf, staging,
                   mapWaiters, syncWaiters, dispatches, mapFailures, returned,
                   baselineSteps, finalSteps, transitionBlocked, aborted, pausedByUser>>
    /\ UNCHANGED <<kvars, ivars, rvars, renderPass, global_time>>

\* part_003:367-369, 400-411 and gpu_manager.js:402-409: the reset button.
\* (The seed input calls the same reset() and then only uploads the seed.)
ResetClick ==
    /\ listenersInstalled
    /\ isBenchmarking' = FALSE
    /\ benchmarkDisabled' = FALSE
    /\ resultBuf' = 0
    /\ frameCounter' = 0
    /\ lastResult' = 0
    /\ accumulatedTotal' = 0
    /\ readbackTotal' = 0
    /\ sinceReset' = 0
    /\ UNCHANGED <<clock, isRunning, warmupBaselineSet, isTransitioning, warmupTotal,
                   warmupTime, benchmarkStartTime, rafQueue, workDoneWaiters, timers,
                   isReading, batch_size, staging, mapWaiters, syncWaiters,
                   dispatches, mapFailures, returned, baselineSteps, finalSteps, transitionBlocked,
                   reportsShown, aborted, pausedByUser>>
    /\ UNCHANGED <<kvars, ivars, rvars, renderPass, global_time>>

\* part_003:354-365: the play/pause button
PlayPauseClick ==
    /\ listenersInstalled
    /\ isRunning' = ~isRunning
    /\ pausedByUser' = isRunning
    /\ IF ~isRunning
       THEN /\ ActiveChains < MaxChains
            /\ rafQueue' = rafQueue + 1
       ELSE UNCHANGED rafQueue
    /\ UNCHANGED <<clock, isBenchmarking, warmupBaselineSet, isTransitioning,
                   benchmarkDisabled, accumulatedTotal, warmupTotal, warmupTime,
                   benchmarkStartTime, workDoneWaiters, timers, gpuvars,
                   dispatches, mapFailures, returned, readbackTotal, baselineSteps,
                   finalSteps, transitionBlocked, reportsShown, aborted>>
    /\ UNCHANGED sinceReset
    /\ UNCHANGED <<kvars, ivars, rvars, renderPass, global_time>>

\* part_003:387-389, 681-696: the benchmark button (a disabled button gets
\* no click; runBenchmark returns at once while a benchmark is running)
BenchmarkClick ==
    /\ listenersInstalled
    /\ ~benchmarkDisabled
    /\ ~isBenchmarking
    /\ ActiveChains < MaxChains
    /\ benchmarkDisabled' = FALSE
    /\ resultBuf' = 0
    /\ frameCounter' = 0
    /\ lastResult' = 0
    /\ accumulatedTotal' = 0
    /\ readbackTotal' = 0
    /\ sinceReset' = 0
    /\ batch_size' = BENCH_BATCH
    /\ isBenchmarking' = TRUE
    /\ benchmarkStartTime' = clock
    /\ isRunning' = TRUE
    /\ pausedByUser' = FALSE
    /\ rafQueue' = rafQueue + 1
    /\ baselineSteps' = 0
    /\ finalSteps' = 0
    /\ transitionBlocked' = FALSE
    /\ UNCHANGED <<clock, warmupBaselineSet, isTransitioning, warmupTotal, warmupTime,
                   workDoneWaiters, timers, isReading, staging, mapWaiters,
                   syncWaiters, dispatches, mapFailures, returned, reportsShown, aborted>>
    /\ UNCHANGED <<kvars, ivars, rvars, renderPass, global_time>>

\* Wall-clock time passes. setTimeout(processResults, 100) fires within the
\* tick in which it was set.
Tick ==
    /\ clock < MaxClock
    /\ timers = <<>>
    /\ clock' = clock + 1
    /\ UNCHANGED <<isRunning, isBenchmarking, warmupBaselineSet, isTransitioning,
                   benchmarkDisabled, accumulatedTotal, warmupTotal, warmupTime,
                   benchmarkStartTime, rafQueue, workDoneWaiters, timers, gpuvars,
                   histvars>>
    /\ UNCHANGED <<kvars, ivars, rvars, renderPass, global_time>>

\* part_003:303-333 and gpu_manager.js:2-25: the state after App.init
\* succeeded: the loop is scheduled once and the listeners are installed.
HostInit ==
    /\ clock = 0
    /\ isRunning = TRUE
    /\ isBenchmarking = FALSE
    /\ warmupBaselineSet = FALSE
    /\ isTransitioning = FALSE
    /\ benchmarkDisabled = FALSE
    /\ accumulatedTotal = 0
    /\ warmupTotal = 0
    /\ warmupTime = 0
    /\ benchmarkStartTime = 0
    /\ rafQueue = 1
    /\ workDoneWaiters = <<>>
    /\ timers = <<>>
    /\ frameCounter = 0
    /\ isReading = FALSE
    /\ lastResult = 0
    /\ batch_size = INTERACTIVE_BATCH
    /\ resultBuf = 0
    /\ staging = 0
    /\ mapWaiters = <<>>
    /\ syncWaiters = <<>>
    /\ dispatches = 0
    /\ mapFailures = 0
    /\ returned = 0
    /\ readbackTotal = 0
    /\ sinceReset = 0
    /\ baselineSteps = 0
    /\ finalSteps = 0
    /\ transitionBlocked = FALSE
    /\ reportsShown = 0
    /\ aborted = FALSE
    /\ pausedByUser = FALSE
    /\ renderPass = FALSE
    /\ global_time = 0

\* The kernel variables of the host specification: one fixed dispatch setup.
KernelIdle ==
    /\ useSubgroups = FALSE
    /\ subgroupSize = WORKGROUP_SIZE
    /\ count = 1
    /\ slots = [s \in Shards |-> ZeroSlot]
    /\ initSlots = slots
    /\ lanePc = [i \in Invocations |-> "start"]
    /\ u_private_inside = [i \in Invocations |-> 0]
    /\ delta_inside = [i \in Invocations |-> 0]
    /\ delta_total = [i \in Invocations |-> 0]
    /\ dispatchNo = 1
    /\ sumInside = 0
    /\ shardAdded = [s \in Shards |-> [inside |-> 0, total |-> 0]]
    /\ adders = {}
    /\ vizCapacity = MAX_VISUAL_POINTS
    /\ out_x = [e \in 0 .. vizCapacity - 1 |-> 0]
    /\ out_y = [e \in 0 .. vizCapacity - 1 |-> 0]
    /\ vizWrites = [i \in Invocations |-> 0]

(***************************************************************************)
(* Initialisation: GPUManager.init and App.init                            *)
(***************************************************************************)
\* gpu_manager.js:39-41, 46, 52-54: the three requestAdapter calls, in the
\* order of the code
Strategies == <<"high-performance", "default", "fallback">>
StrategySet == {Strategies[k] : k \in 1 .. Len(Strategies)}
FeatureNames == {"shader-f16", "subgroups"}

\* navigator.gpu.requestAdapter(...): the adapter of that strategy, or null
Obtained(k) == IF adapterAvailable[k] THEN k ELSE "none"

\* gpu_manager.js:44, 50, 57  if (!adapter)
NoAdapter_Retry(a) == TRUE
NoAdapter(a) == a = "none"

\* gpu_manager.js:67-71  adapter.features.has("shader-f16"), else throw
MissingF16_Ignored(a) == FALSE
MissingF16(a) == "shader-f16" \notin adapterFeatures[a]

\* part_003:340  e.message.includes("RESTART THE BROWSER"): of the messages
\* init throws only the one of gpu_manager.js:59-62 contains the text
MentionsRestart(e) == e = "restart"

\* part_003:303-320 and gpu_manager.js:2-25: the state the constructors leave
HostConstructed ==
    /\ clock = 0
    /\ isRunning = FALSE
    /\ isBenchmarking = FALSE
    /\ warmupBaselineSet = FALSE
    /\ isTransitioning = FALSE
    /\ benchmarkDisabled = FALSE
    /\ accumulatedTotal = 0
    /\ warmupTotal = 0
    /\ warmupTime = 0
    /\ benchmarkStartTime = 0
    /\ rafQueue = 0
    /\ workDoneWaiters = <<>>
    /\ timers = <<>>
    /\ frameCounter = 0
    /\ isReading = FALSE
    /\ lastResult = 0
    /\ batch_size = INTERACTIVE_BATCH
    /\ resultBuf = 0
    /\ staging = 0
    /\ mapWaiters = <<>>
    /\ syncWaiters = <<>>
    /\ dispatches = 0
    /\ mapFailures = 0
    /\ returned = 0
    /\ readbackTotal = 0
    /\ sinceReset = 0
    /\ baselineSteps = 0
    /\ finalSteps = 0
    /\ transitionBlocked = FALSE
    /\ reportsShown = 0
    /\ aborted = FALSE
    /\ pausedByUser = FALSE
    /\ renderPass = FALSE
    /\ global_time = 0

\* The platform init runs on, and init about to start.
InitBegin ==
    /\ hasWebGPU \in BOOLEAN
    /\ adapterAvailable \in [StrategySet -> BOOLEAN]
    /\ adapterFeatures \in [StrategySet -> SUBSET FeatureNames]
    /\ deviceAvailable \in BOOLEAN
    /\ initPc = "start"
    /\ adapter = "none"
    /\ requests = <<>>
    /\ deviceRequested = FALSE
    /\ resourcesCreated = FALSE
    /\ initError = "none"
    /\ listenersInstalled = FALSE
    /\ restartNotice = FALSE

\* The state of the initialisation variables once init has succeeded with
\* the first strategy (the starting point of Spec and SpecKernel).
InitCompleted ==
    /\ hasWebGPU = TRUE
    /\ adapterAvailable = [k \in StrategySet |-> TRUE]
    /\ adapterFeatures = [k \in StrategySet |->
                            IF useSubgroups THEN FeatureNames ELSE {"shader-f16"}]
    /\ deviceAvailable = TRUE
    /\ initPc = "running"
    /\ adapter = Strategies[1]
    /\ requests = <<Strategies[1]>>
    /\ deviceRequested = TRUE
    /\ resourcesCreated = TRUE
    /\ initError = "none"
    /\ listenersInstalled = TRUE
    /\ restartNotice = FALSE

\* gpu_manager.js:32-41: navigator.gpu is tested and the high-performance
\* adapter is requested
RequestHighPerformance ==
    /\ initPc = "start"
    /\ IF ~hasWebGPU
       THEN /\ initError' = "unsupported"
            /\ initPc' = "catch"
            /\ UNCHANGED <<adapter, requests>>
       ELSE /\ requests' = Append(requests, Strategies[1])
            /\ adapter' = Obtained(Strategies[1])
            /\ initPc' = "strategy2"
            /\ UNCHANGED initError
    /\ UNCHANGED <<hasWebGPU, adapterAvailable, adapterFeatures, deviceAvailable,
                   deviceRequested, resourcesCreated, listenersInstalled, restartNotice>>
    /\ UNCHANGED <<kvars, hvars, rvars>>

\* gpu_manager.js:44-47: Strategy 2, the default adapter
RequestDefault ==
    /\ initPc = "strategy2"
    /\ initPc' = "strategy3"
    /\ IF NoAdapter(adapter)
       THEN /\ requests' = Append(requests, Strategies[2])
            /\ adapter' = Obtained(Strategies[2])
       ELSE UNCHANGED <<adapter, requests>>
    /\ UNCHANGED <<hasWebGPU, adapterAvailable, adapterFeatures, deviceAvailable,
                   deviceRequested, resourcesCreated, initError, listenersInstalled,
                   restartNotice>>
    /\ UNCHANGED <<kvars, hvars, rvars>>

\* gpu_manager.js:50-55: Strategy 3, forceFallbackAdapter
RequestFallback ==
    /\ initPc = "strategy3"
    /\ initPc' = "adapter"
    /\ IF NoAdapter(adapter)
       THEN /\ requests' = Append(requests, Strategies[3])
            /\ adapter' = Obtained(Strategies[3])
       ELSE UNCHANGED <<adapter, requests>>
    /\ UNCHANGED <<hasWebGPU, adapterAvailable, adapterFeatures, deviceAvailable,
                   deviceRequested, resourcesCreated, initError, listenersInstalled,
                   restartNotice>>
    /\ UNCHANGED <<kvars, hvars, rvars>>

\* gpu_manager.js:57-63: no adapter at all, the "restart the browser" error
AdapterCheck ==
    /\ initPc = "adapter"
    /\ IF NoAdapter(adapter)
       THEN /\ initError' = "restart"
            /\ initPc' = "catch"
       ELSE /\ initPc' = "features"
            /\ UNCHANGED initError
    /\ UNCHANGED <<hasWebGPU, adapterAvailable, adapterFeatures, deviceAvailable,
                   adapter, requests, deviceRequested, resourcesCreated,
                   listenersInstalled, restartNotice>>
    /\ UNCHANGED <<kvars, hvars, rvars>>

\* gpu_manager.js:65-79: the required and the optional feature
CheckFeatures ==
    /\ initPc = "features"
    /\ IF MissingF16(adapter)
       THEN /\ initError' = "f16"
            /\ initPc' = "catch"
            /\ UNCHANGED useSubgroups
       ELSE /\ useSubgroups' = ("subgroups" \in adapterFeatures[adapter])
            /\ initPc' = "device"
            /\ UNCHANGED initError
    /\ UNCHANGED <<hasWebGPU, adapterAvailable, adapterFeatures, deviceAvailable,
                   adapter, requests, deviceRequested, resourcesCreated,
                   listenersInstalled, restartNotice>>
    /\ UNCHANGED <<subgroupSize, count, slots, lanePc, u_private_inside, delta_inside,
                   delta_total, dispatchNo, initSlots, sumInside, shardAdded, adders,
                   out_x, out_y, vizCapacity, vizWrites>>
    /\ UNCHANGED <<hvars, rvars>>

\* gpu_manager.js:81-83: adapter.requestDevice, which may reject
RequestDevice ==
    /\ initPc = "device"
    /\ deviceRequested' = TRUE
    /\ IF deviceAvailable
       THEN /\ initPc' = "resources"
            /\ UNCHANGED initError
       ELSE /\ initError' = "device"
            /\ initPc' = "catch"
    /\ UNCHANGED <<hasWebGPU, adapterAvailable, adapterFeatures, deviceAvailable,
                   adapter, requests, resourcesCreated, listenersInstalled,
                   restartNotice>>
    /\ UNCHANGED <<kvars, hvars, rvars>>

\* gpu_manager.js:85-95: the canvas context, createResources and
\* initSimulationPipeline
CreateResources ==
    /\ initPc = "resources"
    /\ resourcesCreated' = TRUE
    /\ initPc' = "initialized"
    /\ \E e \in entropy : rng_storage' = Patched(e)
    /\ rngSeeded' = TRUE
    /\ rngHostWrites' = rngHostWrites + 1
    /\ UNCHANGED <<rngLane, entropy, seed, rngState, rngPc, rngDispatchNo>>
    /\ UNCHANGED <<hasWebGPU, adapterAvailable, adapterFeatures, deviceAvailable,
                   adapter, requests, deviceRequested, initError, listenersInstalled,
                   restartNotice>>
    /\ UNCHANGED <<kvars, hvars>>

\* part_003:329-333: gpu.init resolved; the loop is started
AppInitStarted ==
    /\ initPc = "initialized"
    /\ initPc' = "running"
    /\ isRunning' = TRUE
    /\ listenersInstalled' = TRUE
    /\ rafQueue' = rafQueue + 1
    /\ UNCHANGED <<hasWebGPU, adapterAvailable, adapterFeatures, deviceAvailable,
                   adapter, requests, deviceRequested, resourcesCreated, initError,
                   restartNotice>>
    /\ UNCHANGED <<clock, isBenchmarking, warmupBaselineSet, isTransitioning,
                   benchmarkDisabled, accumulatedTotal, warmupTotal, warmupTime,
                   benchmarkStartTime, workDoneWaiters, timers, gpuvars, histvars>>
    /\ UNCHANGED <<kvars, rvars>>

\* part_003:334-350: gpu.init threw; the error is shown
AppInitCatch ==
    /\ initPc = "catch"
    /\ initPc' = "failed"
    /\ restartNotice' = MentionsRestart(initError)
    /\ UNCHANGED <<hasWebGPU, adapterAvailable, adapterFeatures, deviceAvailable,
                   adapter, requests, deviceRequested, resourcesCreated, initError,
                   listenersInstalled>>
    /\ UNCHANGED <<kvars, hvars, rvars>>

\* init, followed by the frame loop and the play/pause button of the
\* application it started
NextInit ==
    \/ RequestHighPerformance
    \/ RequestDefault
    \/ RequestFallback
    \/ AdapterCheck
    \/ CheckFeatures
    \/ RequestDevice
    \/ CreateResources
    \/ AppInitStarted
    \/ AppInitCatch
    \/ LoopFrame
    \/ LoopStopped
    \/ MapResolved
    \/ PlayPauseClick

InitInit ==
    /\ KernelIdle
    /\ HostConstructed
    /\ InitBegin
    /\ RngBegin
    /\ rngLane = 0
    /\ entropy = EntropySamples
SpecInit == InitInit /\ [][NextInit]_vars

Next ==
    \/ LoopStopped
    \/ LoopBlocked
    \/ LoopWarmupTransition
    \/ LoopFinalize
    \/ LoopFrame
    \/ FinalizeRunFrame
    \/ MapResolved
    \/ MapRejected
    \/ SyncDone
    \/ ProcessResultsAbort
    \/ ProcessResultsReport
    \/ ResetClick
    \/ PlayPauseClick
    \/ BenchmarkClick
    \/ Tick

Init == HostInit /\ KernelIdle /\ InitCompleted /\ RngQuiet
Spec == Init /\ [][Next]_vars

InitKernel == KernelInit /\ HostInit /\ InitCompleted /\ RngQuiet
SpecKernel == InitKernel /\ [][KernelNext]_vars

(***************************************************************************)
(* Generator state: seeding, dispatches and the seed control (SpecRng)     *)
(***************************************************************************)
\* The invocations whose gid is the lane that is followed.
RngInvs == {i \in Invocations : Gid(i) = rngLane}

\* gpu_manager.js:319-327: the device starts the compute pass of a frame;
\* the passes of successive submissions run one after the other
RngDispatch ==
    /\ initPc = "running"
    /\ rngSeeded
    /\ \A i \in Invocations : rngPc[i] = 8
    /\ rngDispatchNo < MaxKernelDispatches
    /\ rngDispatchNo' = rngDispatchNo + 1
    /\ rngPc' = [i \in Invocations |-> IF i \in RngInvs THEN 0 ELSE 8]
    /\ rngState' = [i \in Invocations |-> ZeroState]
    /\ UNCHANGED <<rngLane, entropy, rng_storage, rngSeeded, rngHostWrites, seed>>
    /\ UNCHANGED <<kvars, hvars, ivars>>

\* simulation.wgsl:14-19, 37: the uniform the kernel is bound to, as the host
\* uploads it (gpu_manager.js:304-310); write_threshold is 0 in every upload
SimParams ==
    [seed |-> seed, global_time |-> global_time, batch_size |-> count, write_threshold |-> 0]

\* simulation.wgsl:92  let count = params.batch_size
ParamsCount_Seeded(params) == IF params.seed = 0 THEN params.batch_size ELSE MaxBatch
ParamsCount(params) == params.batch_size

\* simulation.wgsl:82-122: what one invocation makes of the state it loaded
\* under the uniform `params`: the state it stores back and its private_total
KernelStep(params, loaded) ==
    [state |-> AfterBatch(loaded, ParamsCount(params)),
     total |-> PrivateTotal(ParamsCount(params))]

\* simulation.wgsl:85-88: one of the four loads of an invocation; after the
\* last one the loop (l.98-111) advances the private state
RngLoad(i) ==
    /\ rngPc[i] \in 0 .. 3
    /\ LET k      == rngPc[i]
           loaded == [rngState[i] EXCEPT ![k] = rng_storage[k]]
       IN  rngState' = [rngState EXCEPT ![i] =
                            IF k = 3 THEN KernelStep(SimParams, loaded).state ELSE loaded]
    /\ rngPc' = [rngPc EXCEPT ![i] = @ + 1]
    /\ UNCHANGED <<rngLane, entropy, rng_storage, rngSeeded, rngHostWrites, seed,
                   rngDispatchNo>>
    /\ UNCHANGED <<kvars, hvars, ivars>>

\* simulation.wgsl:119-122: one of the four stores of an invocation
RngStore(i) ==
    /\ rngPc[i] \in 4 .. 7
    /\ rng_storage' = [rng_storage EXCEPT ![rngPc[i] - 4] = rngState[i][rngPc[i] - 4]]
    /\ rngPc' = [rngPc EXCEPT ![i] = @ + 1]
    \* the private state of an invocation that has returned is gone
    /\ rngState' = IF rngPc[i] = 7 THEN [rngState EXCEPT ![i] = ZeroState] ELSE rngState
    /\ UNCHANGED <<rngLane, entropy, rngSeeded, rngHostWrites, seed, rngDispatchNo>>
    /\ UNCHANGED <<kvars, hvars, ivars>>

\* gpu_manager.js:301-312: what updateParams({seed}) does to the generator
\* buffer: nothing, it writes buffers.uniform only
SeedUpload_Reseed(s) == [buf |-> Patched([k \in 0 .. 3 |-> [c \in 1 .. Components |-> s % RngWord]]),
                         writes |-> rngHostWrites + 1]
SeedUpload(s) == [buf |-> rng_storage, writes |-> rngHostWrites]

\* part_003:376-380: the 'change' listener of the seed control: reset()
\* (l.400-411, with resetStats, gpu_manager.js:402-409) and
\* updateParams({seed})
SeedChange(s) ==
    /\ listenersInstalled
    /\ isBenchmarking' = FALSE
    /\ benchmarkDisabled' = FALSE
    /\ resultBuf' = 0
    /\ frameCounter' = 0
    /\ lastResult' = 0
    /\ accumulatedTotal' = 0
    /\ readbackTotal' = 0
    /\ sinceReset' = 0
    /\ seed' = s
    /\ rng_storage' = SeedUpload(s).buf
    /\ rngHostWrites' = SeedUpload(s).writes
    /\ UNCHANGED <<clock, isRunning, warmupBaselineSet, isTransitioning, warmupTotal,
                   warmupTime, benchmarkStartTime, rafQueue, workDoneWaiters, timers,
                   isReading, batch_size, staging, mapWaiters, syncWaiters,
                   dispatches, mapFailures, returned, baselineSteps, finalSteps, transitionBlocked,
                   reportsShown, aborted, pausedByUser>>
    /\ UNCHANGED <<rngLane, entropy, rngSeeded, rngState, rngPc, rngDispatchNo>>
    /\ UNCHANGED <<kvars, ivars, renderPass, global_time>>

\* Seeds the user can type into the seed control.
Seeds == {0, 1}

\* init on a platform whose first adapter has every feature, about to run
\* createResources (gpu_manager.js:85-95).
InitAtResources ==
    /\ hasWebGPU = TRUE
    /\ adapterAvailable = [k \in StrategySet |-> TRUE]
    /\ adapterFeatures = [k \in StrategySet |-> {"shader-f16"}]
    /\ deviceAvailable = TRUE
    /\ initPc = "resources"
    /\ adapter = Strategies[1]
    /\ requests = <<Strategies[1]>>
    /\ deviceRequested = TRUE
    /\ resourcesCreated = FALSE
    /\ initError = "none"
    /\ listenersInstalled = FALSE
    /\ restartNotice = FALSE

NextRng ==
    \/ CreateResources
    \/ AppInitStarted
    \/ RngDispatch
    \/ \E i \in Invocations : RngLoad(i)
    \/ \E i \in Invocations : RngStore(i)
    \/ \E s \in Seeds : SeedChange(s)
    \/ ResetClick

InitRng ==
    /\ KernelIdle
    /\ HostConstructed
    /\ InitAtResources
    /\ RngBegin
    /\ rngLane = TotalThreads - 1
    /\ entropy = RngStates
SpecRng == InitRng /\ [][NextRng]_vars

(***************************************************************************)
(* SpecBatch: every batch_size the host uploads                            *)
(***************************************************************************)
\* The positions of the speed slider (its markup is not part of src/; the
\* range 1..100 is the one runBenchmark's `speed.value = 100` ends at).
SliderValues == 1 .. 100

\* n <= v^2.5, that is n^2 <= v^5, for n = a * v^2 + r with 0 <= r < v^2,
\* evaluated without leaving 32-bit integers:
\* a^2 * v^2 + 2 * a * r + r^2 / v^2 <= v^3.
LePow25(n, v) ==
    LET a == n \div (v * v)
        r == n % (v * v)
    IN  a * a * v * v + 2 * a * r + ((r * r + v * v - 1) \div (v * v)) <= v * v * v

\* The largest n in lo..hi with n <= v^2.5 (lo is one).
RECURSIVE FloorPow25(_, _, _)
FloorPow25(lo, hi, v) ==
    IF lo = hi THEN lo
    ELSE LET mid == (lo + hi + 1) \div 2
         IN  IF LePow25(mid, v) THEN FloorPow25(mid, hi, v) ELSE FloorPow25(lo, mid - 1, v)

\* part_003:373  const batch = Math.floor(32 + Math.pow(val, 2.5))
SliderBatch_Steep(v) == 32 + 40000 * v
SliderBatch(v) == 32 + FloorPow25(1, v * v * v, v)

\* part_003:371-375: the `input` listener of the speed slider
SpeedInput(v) ==
    /\ listenersInstalled
    /\ batch_size' = SliderBatch(v)
    /\ UNCHANGED <<appvars, frameCounter, isReading, lastResult, resultBuf, staging,
                   mapWaiters, syncWaiters, global_time, histvars>>
    /\ UNCHANGED <<kvars, ivars, rvars>>

NextBatch ==
    \/ \E v \in SliderValues : SpeedInput(v)
    \/ BenchmarkClick
    \/ ResetClick

SpecBatch == Init /\ [][NextBatch]_vars

\* simulation.wgsl:11  const WORKGROUP_SIZE = 256u, unscaled: the most lanes
\* a subgroup can have
WorkgroupLanes == 256

\* simulation.wgsl:114-116 and gpu_manager.js:179-180: the largest value of
\* the u32 partial counts of one dispatch, in iterations (8 samples each):
\* private_total = 8 * b, u_private_inside <= 8 * b, and subgroupAdd of
\* either over n lanes <= 8 * b * n.
PartialIterations(b, n) == b * n

\* 2^32 / 8: a partial count of `it` iterations is below 2^32 iff
\* it < 2^29.
IterationLimit == 2 ^ 29
FitsU32(it) == it < IterationLimit

(***************************************************************************)
(* Kernel claims                                                           *)
(***************************************************************************)
ZeroStart == initSlots = [s \in Shards |-> ZeroSlot]

DispatchedTotal == dispatchNo * InvocationCount(KernelDX, KernelDY) * count * SamplesPerIteration

\* C1: starting from a zeroed ResultAggregate, once every lane of the k-th
\* dispatch has retired, the host-side sum of total_low + total_high * 2^32
\* over all shards is k * (invocations per dispatch) * batch_size * 8, in
\* both reduction paths and under every interleaving.
C1_ExactTotal ==
    (ZeroStart /\ AllRetired) => HostTotal(slots) = DispatchedTotal

\* C1 witness: two dispatches retired from a zeroed aggregate in the subgroup
\* path, and a total_low field has wrapped into its high field.
C1_Witness ==
    /\ ZeroStart /\ AllRetired /\ dispatchNo >= 2 /\ useSubgroups
    /\ \E s \in Shards : slots[s].total_high > 0

\* C2 (as claimed): one dispatch runs totalThreads lanes (128 * 256 = 32,768
\* in the code's numbers) and counts totalThreads * batch_size * 8 samples.
C2_TotalThreadsLanes ==
    (ZeroStart /\ AllRetired) =>
        /\ Cardinality(Invocations) = TotalThreads
        /\ HostTotal(slots) = dispatchNo * TotalThreads * count * SamplesPerIteration

\* C3: for every shard, once all lanes have finished, high * 2^32 + low is
\* the initial 64-bit value plus the sum of all deltas added to the shard,
\* for the inside pair and for the total pair: no carry is missed and none is
\* applied twice.
C3_CarryExact ==
    AllRetired =>
        \A s \in Shards :
            /\ Combine(slots[s].inside_low, slots[s].inside_high)
                 = Combine(initSlots[s].inside_low, initSlots[s].inside_high)
                   + shardAdded[s].inside
            /\ Combine(slots[s].total_low, slots[s].total_high)
                 = Combine(initSlots[s].total_low, initSlots[s].total_high)
                   + shardAdded[s].total

\* C3 witness: a shard that started at the wrap-around boundary received at
\* least two concurrent adds in the baseline path; exactly one of them
\* wrapped (delta above the boundary), the others did not (delta below).
C3_Witness ==
    /\ ~ZeroStart /\ AllRetired /\ ~useSubgroups
    /\ \E s \in Shards :
        /\ slots[s].total_high = 1
        /\ shardAdded[s].total >= 2 * SamplesPerIteration
        /\ slots[s].inside_high = 1

\* C4: the summed (inside, total) after a dispatch is the same function of
\* the per-lane partial counts in the baseline path and in the subgroup path,
\* for every subgroup size and every elected lane: every lane's counts are
\* added exactly once.
C4_PathsAgree ==
    AllRetired =>
        /\ HostInside(slots) = HostInside(initSlots) + sumInside
        /\ HostTotal(slots) = HostTotal(initSlots) + DispatchedTotal

\* C4 witness: the subgroup path with two-lane subgroups in which the lane
\* with the higher id was elected and added the subgroup's counts.
C4_Witness ==
    /\ AllRetired /\ useSubgroups /\ subgroupSize = 2 /\ sumInside > 0
    /\ shardAdded[0].total = 0
    /\ shardAdded[1].total > 0

(***************************************************************************)
(* Host claims                                                             *)
(***************************************************************************)
\* C5: at most one readback of the staging buffer is in flight at any time:
\* runFrame never encodes a copy into the staging buffer and never calls
\* mapAsync on it while an earlier mapAsync is still pending.
C5_OneReadbackInFlight == Len(mapWaiters) <= 1

\* C5 witness: within the first tick two runFrame calls were made without a
\* reset between them, the first one's readback is still pending and the
\* second one's dispatch went out without a copy (its samples are still in
\* the ResultAggregate).
C5_Witness ==
    /\ Len(mapWaiters) = 1 /\ isReading
    /\ clock = 0 /\ dispatches = 2 /\ frameCounter = 2
    /\ resultBuf > 0

\* C6 (as claimed): the accumulators hold every sample that was read back at
\* most once, and exactly once when no readback is pending.
C6_CountedOnce ==
    /\ accumulatedTotal <= readbackTotal
    /\ (mapWaiters = <<>> /\ syncWaiters = <<>>) => accumulatedTotal = readbackTotal

\* C7: when mapAsync is rejected, runFrame resolves with the previous
\* lastResult, lastResult stays as it was, the in-flight flag is cleared, and
\* the caller goes on (a running loop schedules its next iteration).
C7_MapFailureContained ==
    [][mapFailures' > mapFailures =>
        /\ lastResult' = lastResult
        /\ returned' = lastResult
        /\ isReading' = FALSE
        /\ mapWaiters' = Tail(mapWaiters)
        /\ (Head(mapWaiters) = "loop" /\ isRunning) => rafQueue' = rafQueue + 1]_vars

\* C7 witness: after a rejected mapAsync a later frame reads back again.
C7_Witness == mapFailures > 0 /\ isReading /\ Len(mapWaiters) = 1

\* The benchmark phase, read off the flags the code keeps.
FinalizePending ==
    \/ workDoneWaiters # <<>>
    \/ syncWaiters # <<>>
    \/ \E k \in 1 .. Len(mapWaiters) : mapWaiters[k] = "final"

Phase ==
    IF ~isBenchmarking THEN "Idle"
    ELSE IF ~warmupBaselineSet THEN "WarmUp"
    ELSE IF FinalizePending THEN "Finalizing"
    ELSE "SteadyState"

PhaseEdges ==
    {<<"Idle", "WarmUp">>, <<"WarmUp", "SteadyState">>,
     <<"SteadyState", "Finalizing">>, <<"Finalizing", "Idle">>}

\* C8 (as claimed): the phase only moves along Idle -> WarmUp -> SteadyState
\* -> Finalizing -> Idle or back to Idle, and a benchmark that starts begins
\* in WarmUp with its warm-up window starting now.
C8_PhaseOrder ==
    [][/\ \/ Phase' = Phase
          \/ Phase' = "Idle"
          \/ <<Phase, Phase'>> \in PhaseEdges
       /\ (~isBenchmarking /\ isBenchmarking') =>
            (Phase' = "WarmUp" /\ benchmarkStartTime' = clock')]_vars

\* Something of the program is still to run: a scheduled loop iteration, a
\* pending promise of runFrame or of the finalize step.
HasContinuation ==
    \/ rafQueue > 0
    \/ mapWaiters # <<>>
    \/ syncWaiters # <<>>
    \/ workDoneWaiters # <<>>

\* C9 (as claimed, in the form a finite run refutes): a benchmark that has
\* been started and not paused always has a continuation that takes it
\* further towards Idle; without one it can never get there unless another
\* UI event occurs.
C9_BenchmarkKeepsGoing ==
    (isBenchmarking /\ isRunning) => HasContinuation

\* C10: within one benchmark run the WarmUp -> SteadyState step is taken at
\* most once and the SteadyState -> Finalizing step at most once.
C10_TransitionsOnce == baselineSteps <= 1 /\ finalSteps <= 1

\* C10 witness: a run in which a loop iteration reached the end of a window
\* while the transition was pending and returned, and both steps were taken.
C10_Witness == transitionBlocked /\ baselineSteps = 1 /\ finalSteps = 1

\* C11 (as claimed): the step that fixes the baseline (warmupBaselineSet
\* becomes true during a benchmark) is the settling of a readback that the
\* WarmUp -> SteadyState step issued itself; at that moment the device
\* ResultAggregate is empty and the baseline holds everything read back.
C11_BaselineAfterReadback ==
    [][(isBenchmarking /\ ~warmupBaselineSet /\ warmupBaselineSet') =>
        /\ mapWaiters # <<>>
        /\ Head(mapWaiters) = "warmup"
        /\ resultBuf' = 0
        /\ warmupTotal' >= readbackTotal']_vars

\* C12 (as claimed): once the host is in Finalizing no further compute
\* dispatch is submitted; the final readback only copies the ResultAggregate.
C12_NoDispatchInFinalizing ==
    [][Phase = "Finalizing" => dispatches' = dispatches]_vars

\* The final readback of the finalize step is awaiting mapAsync.
FinalReadbackPending == mapWaiters # <<>> /\ Head(mapWaiters) = "final"

\* part_003:516, 557: completeScientificBenchmark computed steadyTotal and
\* handed processResults to setTimeout in this step.
MetricsComputed == Len(timers') > Len(timers)

\* C13 (as claimed): in Finalizing the running flag is cleared when the wait
\* for the submitted work begins, the final readback is issued only when
\* that wait is over, and the metrics are computed only in the step in which
\* that readback resolves, from accumulators that include its result.
C13_FinalizeOrder ==
    [][/\ (Len(workDoneWaiters') > Len(workDoneWaiters)) => ~isRunning'
       /\ (~FinalReadbackPending /\ FinalReadbackPending') =>
             (WorkDoneReady(workDoneWaiters) /\ workDoneWaiters' = Tail(workDoneWaiters))
       /\ (isBenchmarking /\ finalSteps > 0 /\ MetricsComputed) =>
             /\ FinalReadbackPending
             /\ mapFailures' = mapFailures
             /\ accumulatedTotal' = accumulatedTotal + staging
             /\ timers'[Len(timers')] = accumulatedTotal' - warmupTotal]_vars

\* part_003:471  const scientificDuration = 10.0  (seconds; WINDOW ticks)
scientificDuration == WINDOW

\* part_003:514  capturedTime || (performance.now() - this.warmupTime) / 1000
SteadyTime(capturedTime) ==
    IF capturedTime # 0 THEN capturedTime ELSE clock' - warmupTime

\* C14 (as claimed): the time the throughput is divided by is the wall-clock
\* time that elapsed between the recorded start of the steady-state window
\* (warmupTime) and the end of the measurement.
C14_ElapsedTimeReported ==
    [][(isBenchmarking /\ finalSteps > 0 /\ MetricsComputed) =>
          SteadyTime(scientificDuration) = clock' - warmupTime]_vars

\* part_003:518-554: processResults ran in this step (report or abort); this
\* is the exit from Finalizing to Idle.
ProcessResultsRan == Len(timers') < Len(timers)

\* C15 (as claimed): every exit from Finalizing to Idle, report and abort
\* alike, leaves the accumulators at zero, isBenchmarking and
\* warmupBaselineSet false and the kernel batch size at the interactive value.
C15_FinalizeExitClean ==
    [][ProcessResultsRan =>
        /\ accumulatedTotal' = 0
        /\ ~isBenchmarking'
        /\ ~warmupBaselineSet'
        /\ batch_size' = INTERACTIVE_BATCH]_vars

\* C16: when processResults finds steadyTotal <= 0 the benchmark is aborted:
\* no report is shown and no metric is computed from the count, and reset()
\* runs (accumulators, lastResult, frameCounter and the ResultAggregate are
\* zeroed, isBenchmarking is false and the benchmark button is enabled).
C16_ZeroSampleAbort ==
    [][(ProcessResultsRan /\ Head(timers) <= 0) =>
        /\ reportsShown' = reportsShown
        /\ aborted'
        /\ accumulatedTotal' = 0 /\ lastResult' = 0 /\ frameCounter' = 0
        /\ resultBuf' = 0
        /\ ~isBenchmarking' /\ ~benchmarkDisabled']_vars

\* C16 witness: a benchmark was aborted after a steady-state window that
\* was entered with a baseline, and no report has ever been shown.
C16_Witness == aborted /\ reportsShown = 0 /\ finalSteps = 1 /\ baselineSteps = 1

\* C17 (as claimed): reset() in any phase leaves the accumulators, lastResult
\* and frameCounter at zero and the benchmark phase Idle, with
\* isBenchmarking, warmupBaselineSet and isTransitioning all false.
C17_ResetToIdle ==
    [][ResetClick =>
        /\ accumulatedTotal' = 0 /\ lastResult' = 0 /\ frameCounter' = 0
        /\ ~isBenchmarking'
        /\ ~warmupBaselineSet'
        /\ ~isTransitioning']_vars

(***************************************************************************)
(* Initialisation claims                                                   *)
(***************************************************************************)
\* C18: init requests adapters in the order high-performance, default,
\* forced fallback; a later request is made only when every earlier one
\* returned no adapter; the adapter used is the first one obtained; and init
\* fails with the "restart the browser" error exactly when all three
\* requests were made and returned no adapter.
C18_AdapterFallback ==
    /\ Len(requests) <= Len(Strategies)
    /\ \A k \in 1 .. Len(requests) :
          /\ requests[k] = Strategies[k]
          /\ \A j \in 1 .. k - 1 : ~adapterAvailable[Strategies[j]]
    /\ adapter # "none" =>
          /\ adapter = requests[Len(requests)]
          /\ adapterAvailable[adapter]
    /\ initError = "restart" =>
          /\ requests = Strategies
          /\ \A k \in StrategySet : ~adapterAvailable[k]
    /\ (requests = Strategies /\ (\A k \in StrategySet : ~adapterAvailable[k])
          /\ initPc # "adapter") => initError = "restart"
    /\ initPc = "failed" => (restartNotice <=> initError = "restart")

\* C18 witness: all three requests were made, none returned an adapter, and
\* init failed with the "restart the browser" notice.
C18_Witness ==
    /\ initPc = "failed" /\ initError = "restart" /\ restartNotice
    /\ requests = Strategies

\* C19: when the adapter obtained lacks 'shader-f16', no device is requested,
\* no buffer or pipeline is created, init fails with the f16 error, and the
\* frame loop is never started: isRunning stays false, nothing is scheduled
\* and no dispatch is submitted.
C19_NoF16NoStart ==
    (adapter # "none" /\ "shader-f16" \notin adapterFeatures[adapter]) =>
        /\ ~deviceRequested
        /\ ~resourcesCreated
        /\ ~isRunning /\ rafQueue = 0 /\ ~listenersInstalled
        /\ dispatches = 0
        /\ initPc \in {"catch", "failed"} => initError = "f16"
        /\ initPc \in {"strategy2", "strategy3", "adapter", "features", "catch", "failed"}

\* C19 witness: the fallback adapter was obtained, it has the optional
\* feature but not 'shader-f16', and init has failed.
C19_Witness ==
    /\ initPc = "failed" /\ initError = "f16"
    /\ adapter = Strategies[3] /\ "subgroups" \in adapterFeatures[adapter]

\* C20 (as claimed): after a pause, and until an explicit play or benchmark
\* click, no dispatch is submitted and no loop iteration is scheduled; the
\* iteration that was awaiting runFrame completes and adds the result it
\* gets to the accumulators.
C20_PauseStopsDispatch ==
    [][(pausedByUser /\ pausedByUser') =>
        /\ dispatches' = dispatches
        /\ rafQueue' <= rafQueue
        /\ (mapWaiters # <<>> /\ Head(mapWaiters) = "loop" /\ mapWaiters' = Tail(mapWaiters)) =>
              accumulatedTotal' = accumulatedTotal
                                  + (IF mapFailures' > mapFailures THEN lastResult ELSE staging)]_vars

\* ---------------------------------------------------------------------------
\* Frame-loop chains.

\* C21: at most one frame-loop chain is active: the iterations that are
\* scheduled with requestAnimationFrame or suspended in `await runFrame`
\* never number more than one, whichever of init, play/pause and runBenchmark
\* scheduled them.
C21_OneLoopChain == ActiveChains <= 1

\* ---------------------------------------------------------------------------
\* Generator state regions of the kernel invocations.

\* simulation.wgsl:83  let offset = gid * 4u;  l.85-88 and l.119-122 load and
\* store rng_storage[offset + 0u .. offset + 3u]  (indices of vec4<u32>)
RngRegion(inv) == {Gid(inv) * 4 + k : k \in 0 .. 3}

\* gpu_manager.js:142  rngBufferSize = totalThreads * 64 bytes, that is
\* totalThreads * 4 elements of array<vec4<u32>>
RngBufferVecs == TotalThreads * 4

\* Invocations of the current dispatch that have gone through the loads and
\* stores of their generator state (simulation.wgsl:85-88, 119-122).
RngTouched == {i \in Invocations : lanePc[i] # "start"}

\* C22 (first half): within one dispatch no two kernel invocations load and
\* store the same generator-state words: distinct invocations have disjoint
\* state regions.
C22_RegionsDisjoint ==
    \A i, j \in RngTouched : i # j => RngRegion(i) \cap RngRegion(j) = {}

\* C22 (second half): every state region lies inside the generator buffer
\* allocated for totalThreads lanes.
C22_RegionsInBuffer ==
    \A i \in RngTouched : RngRegion(i) \subseteq 0 .. RngBufferVecs - 1

\* Some invocation of every workgroup of the grid has used its region.
C22_Witness ==
    \A wg \in {Workgroup(i) : i \in Invocations} :
        \E i \in RngTouched : Workgroup(i) = wg

\* ---------------------------------------------------------------------------
\* Generator state.

\* The state region of the lane is all zero.
RngAllZero == \A k \in 0 .. 3 : \A c \in 1 .. Components : rng_storage[k][c] = 0

\* No invocation is between its first load and its last store: what the
\* buffer holds is the persisted state.
RngAtRest == \A i \in Invocations : rngPc[i] = 8

RngKernelStore ==
    \E i \in Invocations : rngPc[i] \in 4 .. 7 /\ rngPc'[i] = rngPc[i] + 1

\* C30: after the initial seeding the host never writes the generator
\* buffer again: reset, resetStats, updateParams (a seed change included)
\* and the submission of a frame leave it as it is, and every change of the
\* lane's state is a store of a kernel invocation.
C30_HostLeavesRngState ==
    [][rngSeeded => /\ rngHostWrites' = rngHostWrites
                    /\ (rng_storage' # rng_storage => RngKernelStore)]_vars

\* The user has changed the seed, the application was reset, and the second
\* dispatch has retired with the buffer written by the host once.
C30_Witness ==
    /\ rngSeeded /\ seed # 0 /\ rngDispatchNo = 2 /\ RngAtRest
    /\ rngHostWrites = 1
    /\ rng_storage # Patched(ZeroState)

\* ---------------------------------------------------------------------------
\* Contention on the shards.

\* The group whose lanes are to combine their counts: the subgroup in the
\* hardware path, the workgroup otherwise.
ReductionGroup(i) == IF useSubgroups THEN Subgroup(i) ELSE Workgroup(i)

\* Lanes of the workgroup wg that have updated shard s in this dispatch.
ShardAdders(wg, s) == {i \in adders : Workgroup(i) = wg /\ SlotIdx(i) = s}

\* C24: in every path only one lane of a group (of a subgroup in the
\* hardware path) performs the global low-field add of a counter: no two
\* lanes of the same group have added to global memory in one dispatch.
C24_OneAddPerGroup ==
    \A i, j \in adders : i # j => ReductionGroup(i) # ReductionGroup(j)

\* C24, hardware path only: one global add per subgroup.
C24_OneAddPerSubgroup ==
    useSubgroups => \A i, j \in adders : i # j => Subgroup(i) # Subgroup(j)

\* C25: within one dispatch at most one lane of any workgroup updates a
\* given shard, in the baseline path and in the subgroup path.
C25_OneLanePerShardPerWorkgroup ==
    \A i \in Invocations : \A s \in Shards :
        Cardinality(ShardAdders(Workgroup(i), s)) <= 1

\* The dispatch has retired and two lanes of one workgroup have both updated
\* global memory.
C25_Witness ==
    /\ AllRetired
    /\ \E i, j \in adders : i # j /\ Workgroup(i) = Workgroup(j)

FrameWithReadback == dispatches' = dispatches + 1 /\ ~isReading /\ isReading'

\* C27: in every frame with readback the submission copies the aggregate to
\* the staging buffer after the frame's compute pass and clears it after the
\* copy: the staging buffer receives everything the aggregate held, this
\* frame's dispatch included, and the aggregate is empty before any later
\* dispatch, so no sample is cleared uncopied or copied twice.
C27_CopyBeforeClear ==
    [][FrameWithReadback => /\ staging' = resultBuf + batch_size
                            /\ resultBuf' = 0]_vars

\* A readback has been added to the accumulators and a later frame has
\* copied a non-empty aggregate that is now in flight.
C27_Witness ==
    /\ readbackTotal > 0 /\ accumulatedTotal > 0
    /\ isReading /\ staging > 0 /\ resultBuf = 0 /\ dispatches >= 2

\* ---------------------------------------------------------------------------
\* Frame options of the benchmark phases.

\* A step that is a runFrame call (it submits a dispatch).
FrameStep == dispatches' = dispatches + 1

\* The runFrame call of the finalize step, made when onSubmittedWorkDone
\* resolves.
FinalizeFrameStep == FrameStep /\ Len(workDoneWaiters') < Len(workDoneWaiters)

\* A step in which runFrame issues a readback: copy, clear and mapAsync.
ReadbackIssued == ~isReading /\ isReading'

\* C28: every frame submitted in WarmUp has no render pass; every frame
\* submitted in SteadyState has neither render pass nor readback; once the
\* baseline is fixed no readback is issued during the benchmark except by the
\* finalize frame.
C28_PhaseFrameOptions ==
    [][FrameStep =>
        /\ (isBenchmarking /\ ~warmupBaselineSet) => ~renderPass'
        /\ (isBenchmarking /\ warmupBaselineSet /\ ~FinalizeFrameStep) =>
                /\ ~renderPass'
                /\ ~ReadbackIssued
                /\ staging' = staging
                /\ resultBuf' = resultBuf + batch_size]_vars

\* The transition readback returned the one WarmUp dispatch and fixed the
\* baseline with it; the only other dispatch is a SteadyState frame, whose
\* samples wait in the aggregate: it had no render pass and no readback.
C28_Witness ==
    /\ isBenchmarking /\ warmupBaselineSet /\ baselineSteps = 1
    /\ dispatches = 2 /\ warmupTotal = BENCH_BATCH /\ resultBuf = BENCH_BATCH
    /\ ~isReading /\ ~renderPass /\ mapWaiters = <<>>

\* ---------------------------------------------------------------------------
\* Phase transitions and the wall clock.

\* The step WarmUp -> SteadyState: the baseline flag is raised.
BaselineStep == ~warmupBaselineSet /\ warmupBaselineSet'

\* The step SteadyState -> Finalizing: loop starts the wait for the queue.
FinalizeStep == Len(workDoneWaiters') > Len(workDoneWaiters)

\* C29: WarmUp -> SteadyState is taken only when at least 10 s have passed
\* since the benchmark was started, and SteadyState -> Finalizing only when
\* at least 10 s have passed since the baseline of this run was fixed (which
\* was itself at least 10 s after the start of this run).
C29_WallClockTransitions ==
    [][/\ (isBenchmarking' /\ BaselineStep) => clock - benchmarkStartTime >= WINDOW
       /\ FinalizeStep => /\ clock - warmupTime >= WINDOW
                          /\ warmupTime - benchmarkStartTime >= WINDOW]_vars

\* C29, first half alone.
C29_WarmupLastsTenSeconds ==
    [][(isBenchmarking' /\ BaselineStep) => clock - benchmarkStartTime >= WINDOW]_vars

\* C29, second half read against the stored baseline time only.
C29_SteadyLastsTenSeconds ==
    [][FinalizeStep => clock - warmupTime >= WINDOW]_vars

(***************************************************************************)
(* Visualization write                                                     *)
(***************************************************************************)
\* The step of invocation i that runs simulation.wgsl:82-128.
SampleStep(i) == lanePc[i] = "start" /\ lanePc'[i] # "start"

\* The elements of the visualization arrays a step changes.
VizChanged ==
    {e \in DOMAIN out_x : out_x'[e] # out_x[e]} \cup {e \in DOMAIN out_y : out_y'[e] # out_y[e]}

SubStream(buf, c) == [k \in 0 .. 3 |-> buf[k][c]]

SubStreamZero(buf, c) == \A k \in 0 .. 3 : SubStream(buf, c)[k] = 0

\* C33 (as claimed): once the seed data is written and before any dispatch,
\* no component of the followed lane holds an all-zero (s0[c], s1[c], s2[c],
\* s3[c]), whatever the entropy source returned.
C33_NoZeroSubStream ==
    (rngSeeded /\ rngDispatchNo = 0) =>
        \A c \in 1 .. Components : ~SubStreamZero(rng_storage, c)

\* What the seeding does enforce: none of the four vectors s0 .. s3 of the
\* lane is all zero after seeding.
C33_NoZeroVector ==
    (rngSeeded /\ rngDispatchNo = 0) =>
        \A k \in 0 .. 3 : rng_storage[k] # ZeroVec

(***************************************************************************)
(* Readbacks pending across a reset                                        *)
(***************************************************************************)
\* C34 (as claimed): the accumulator and lastResult never hold more samples
\* than were dispatched since the accumulators were last zeroed: a readback
\* that was pending at reset() adds nothing of what it copied before.
C34_OnlyPostResetSamples ==
    /\ lastResult <= sinceReset
    /\ accumulatedTotal <= sinceReset

\* The same for lastResult alone, which no caller adds up.
C34_LastResultPostReset == lastResult <= sinceReset

(***************************************************************************)
(* The in-flight flag                                                      *)
(***************************************************************************)
\* C35: isReading is true exactly when a runFrame call is waiting for
\* mapAsync on the staging buffer; in particular it is false whenever no
\* runFrame call is waiting for anything, after resolved and after rejected
\* maps alike, so the next frame with readback is served.
C35_FlagTracksReadback ==
    /\ isReading <=> (mapWaiters # <<>>)
    /\ (mapWaiters = <<>> /\ syncWaiters = <<>>) => ~isReading

\* C35 witness: a map was rejected before any had resolved (the rejected
\* call returned the initial lastResult), a later readback was issued and
\* has resolved, and every runFrame call has settled with the flag clear.
C35_Witness ==
    /\ mapFailures = 1 /\ returned = 0 /\ lastResult > 0
    /\ ~isReading /\ mapWaiters = <<>> /\ syncWaiters = <<>>

(***************************************************************************)
(* Width of the partial counts                                             *)
(***************************************************************************)
\* C36: for the batch_size the uniform holds (the default, any slider
\* position, the benchmark's), the per-lane total batch_size * 8, the
\* per-lane inside count (at most the per-lane total) and the sum of either
\* over a subgroup of any size up to the workgroup's 256 lanes are below
\* 2^32; the value handed to one atomicAdd is therefore below 2^32 and the
\* add can pass the top of the low field once at most.
C36_PartialCountsFit ==
    /\ batch_size >= 1
    /\ \A n \in 1 .. WorkgroupLanes : FitsU32(PartialIterations(batch_size, n))

\* C36 witness: the slider is at 100, the largest batch_size there is
\* (floor(32 + 100^2.5) = 100032).
C36_Witness == batch_size = 100032 /\ batch_size = SliderBatch(100)

(***************************************************************************)
(* What the kernel reads of the uniform                                    *)
(***************************************************************************)
\* Uniforms with the batch_size of the current one and any seed, global_time
\* and write_threshold.
UniformsLike(params) ==
    {u \in [seed : Seeds, global_time : 0 .. MaxKernelDispatches,
            batch_size : {params.batch_size}, write_threshold : {0, 1}] : TRUE}

\* The state an invocation has loaded when its last load is next.
Loaded(i) == [rngState[i] EXCEPT ![3] = rng_storage[3]]

====
